---- MODULE Spec2Model ----
(***************************************************************************)
(* Model of the threshold/delay grid search (exceptions/grid-search.py)    *)
(* and of the optimal-binary builder (exceptions/create-optimal-binaries.py)*)
(*                                                                         *)
(* Numbers: a float accuracy is an integer number of hundredths of a       *)
(* percent (8734 is 87.34); a text printed with the format ".1f" is an     *)
(* integer number of tenths (873 is the text "87.3").                      *)
(***************************************************************************)
EXTENDS Integers, Sequences, FiniteSets, TLC

\* ------------------------------------------------------------------ bounds
\* The model sweeps the first NumThresholds thresholds, the first NumDelays
\* delays and the first NumGates gates of the program's lists.
NumThresholds == 2
NumDelays == 2
NumGates == 2
\* Longest simulator report (in lines) the parser is applied to.
MaxLines == 4
\* Longest template (in symbols) variant generation is applied to.
MaxChars == 3

\* --------------------------------------------------------------- constants
GATE_NAMES == <<"AND", "OR", "ASSIGN", "NOT", "NAND", "XOR", "MUX">>

\* range(start, stop, step) of Python, for a positive step
RECURSIVE Range(_, _, _)
Range(start, stop, step) ==
    IF start >= stop THEN <<>> ELSE <<start>> \o Range(start + step, stop, step)

\* (a sweep with the step mistyped)
ThresholdsWrongStep == Range(100, 301, 50)

THRESHOLDS == Range(100, 301, 25)

DELAYS == <<32, 48, 64, 96, 128, 192, 256, 512, 1024>>

\* The part of each list the model sweeps.
Gates == SubSeq(GATE_NAMES, 1, NumGates)
Thresholds == SubSeq(THRESHOLDS, 1, NumThresholds)
Delays == SubSeq(DELAYS, 1, NumDelays)
GateSet == {Gates[i] : i \in 1..Len(Gates)}

\* ------------------------------------------------------------------- state
VARIABLES
    pc,               \* position of main() / test_parameters() of grid-search.py
    ti, di, gi,       \* loop positions: threshold, delay, gate (1-based)
    buf,              \* per gate: lines written to the result stream, not yet flushed
    disk,             \* per gate: lines of the result file on stable storage
    rows,             \* rows[gate]: the row being built for the current threshold
    files,            \* generated files present in the working directory
    result,           \* what the simulator run returned: exit status and stdout
    gate_accuracies,  \* what test_parameters hands back to main
    pending,          \* how test_parameters leaves its try block: "return" or "raise"
    ev,               \* what happened at the current grid point (history)
    best_configs,     \* Best Configuration Records computed so far
    output,           \* lines of output.txt
    capture,          \* parser specification: the captured text
    parsed,           \* parser specification: the parser's result on capture
    fpc,              \* position of main() / create_optimized_binary()
    fgi,              \* the gate of BEST_CONFIGS main() is at (1-based)
    fpending,         \* how create_optimized_binary leaves its try block
    fev,              \* what happened in the current create_optimized_binary
    successful_builds,\* main()'s count of successful builds
    listed,           \* the binaries main() lists at its end
    visited,          \* the grid points test_parameters was called for, in order (history)
    measured,         \* the mapping main() received at each grid point, in order (history)
    argv,             \* source arguments and outputs of the build commands of the grid point
    fargv,            \* the same for the current create_optimized_binary
    fcalls,           \* per gate: the calls of create_optimized_binary (history)
    fbuilt,           \* the gates whose compile and link both exited 0 (history)
    template,         \* variant generation: the text of a template
    triple,           \* variant generation: gate, threshold and delay
    variant           \* variant generation: the generated texts

sweepVars == <<pc, ti, di, gi, buf, disk, rows, result, gate_accuracies,
               pending, ev, best_configs, output, visited, measured, argv>>
parseVars == <<capture, parsed>>
finalVars == <<fpc, fgi, fpending, fev, successful_builds, listed, fargv,
               fcalls, fbuilt>>
genVars == <<template, triple, variant>>
otherVars == <<parseVars, finalVars, genVars>>
vars == <<sweepVars, files, parseVars, finalVars, genVars>>

\* ------------------------------------------------------- simulator reports
NoPct == -1

\* A line of the simulator's report.  kind "gate": a line holding the
\* delimiter "=== <gate> gate"; kind "rate": a line holding the marker
\* "Correct rate: (avg, std)", with the number before its first "%" (NoPct when
\* "(<number>%" does not occur) and the rest of its text (std); kind "text":
\* any other line.  Two lines are the same text iff the records are equal.
GateLine(g) == [kind |-> "gate", gate |-> g, pct |-> NoPct, std |-> 0]
RateLine(p, s) == [kind |-> "rate", gate |-> "", pct |-> p, std |-> s]
TextLine == [kind |-> "text", gate |-> "", pct |-> NoPct, std |-> 0]

\* Accuracies the simulator reports, in hundredths of a percent (none of them
\* halfway between two tenths, where ".1f" follows the binary value).
AccVals == <<5000, 8734>>

EmptyMap == [g \in {} |-> 0]

Get(m, g, dflt) == IF g \in DOMAIN m THEN m[g] ELSE dflt

Put(m, g, v) == [x \in (DOMAIN m) \cup {g} |-> IF x = g THEN v ELSE m[x]]

\* list.index(line): the first position holding an equal line
IndexOf(lines, line) ==
    CHOOSE j \in 1..Len(lines) :
        /\ lines[j] = line
        /\ \A i \in 1..(j - 1) : lines[i] # line

\* lines[idx-1] of Python for the 1-based position idx: position 0 minus one
\* is -1, the last line.
PrevLine(lines, idx) == IF idx = 1 THEN lines[Len(lines)] ELSE lines[idx - 1]

\* the gate of GATE_NAMES whose delimiter the line holds, "" when none
GateIn(line) ==
    IF line.kind = "gate" /\ line.gate \in GateSet THEN line.gate ELSE ""

\* The loop of lines 61-69 from position k on.  raised: re.search found no
\* match (None.group) for a marker line that follows a gate delimiter.
RECURSIVE ParseFrom(_, _, _)
ParseFrom(lines, k, acc) ==
    IF k > Len(lines) THEN [raised |-> FALSE, acc |-> acc]
    ELSE IF lines[k].kind # "rate" THEN ParseFrom(lines, k + 1, acc)
    ELSE LET idx == IndexOf(lines, lines[k])
             prev_line == PrevLine(lines, idx)
             gate == GateIn(prev_line)
         IN  IF gate = "" THEN ParseFrom(lines, k + 1, acc)
             ELSE IF lines[k].pct = NoPct THEN [raised |-> TRUE, acc |-> acc]
             ELSE ParseFrom(lines, k + 1, Put(acc, gate, lines[k].pct))

ParseReport(lines) == ParseFrom(lines, 1, EmptyMap)

\* Reports the simulator prints during the sweep: the first two gates each
\* with its own rate; both with the same rate line; a rate line without a
\* percentage; nothing.
ReportDistinct ==
    <<GateLine(Gates[1]), RateLine(AccVals[1], 1),
      GateLine(Gates[2]), RateLine(AccVals[2], 1)>>
ReportSame ==
    <<GateLine(Gates[1]), RateLine(AccVals[2], 1),
      GateLine(Gates[2]), RateLine(AccVals[2], 1)>>
ReportNoPct == <<GateLine(Gates[1]), RateLine(NoPct, 1)>>
ReportEmpty == <<>>
SweepReports == {ReportDistinct, ReportSame, ReportNoPct, ReportEmpty}

\* ------------------------------------------------------------ result files
\* f"{accuracy:.1f}": the float in hundredths, printed in tenths
Fmt1(h) == (h + 5) \div 10

\* float(text) of a text printed with one decimal
ParseFloat(t) == t * 10

\* A line of a result file.  A cell carries, beside its text a, the delay d
\* it was measured with (history: the file holds the text only).
Cell(d, a) == [d |-> d, a |-> a]
CommentLine(g) == [kind |-> "comment", gate |-> g, t |-> 0, cells |-> <<>>]
HeaderLine ==
    [kind |-> "header", gate |-> "", t |-> 0,
     cells |-> [j \in 1..Len(Delays) |-> Cell(Delays[j], 0)]]
RowLine(t, cells) == [kind |-> "row", gate |-> "", t |-> t, cells |-> cells]

\* the two lines main() writes after opening a gate's result file
Header(g) == <<CommentLine(g), HeaderLine>>

\* A generated file: the pattern of its path and what stands for "%" in it
\* ("temp" in the sweep, the lower-case gate name in the optimal-binary builder).
Path(pattern, id) == [pattern |-> pattern, id |-> id]

\* the files test_parameters removes in its finally block
TempFiles ==
    {Path("gates/compose_%.cpp", "temp"), Path("main_%.cpp", "temp"),
     Path("main_%.elf", "temp")}

NoEvent == [gen |-> "-", clean |-> "-", compile |-> "-", link |-> "-",
            run |-> "-", parse |-> "-"]
NoResult == [exit |-> 0, stdout |-> <<>>]

\* A build command: the source and object paths it is given, the path it
\* writes.
Cmd(inputs, out) == [inputs |-> inputs, out |-> out]
NoCmd == Cmd({}, {})
NoArgv == [compile |-> NoCmd, link |-> NoCmd]

\* line 47: the compile of the sweep
SweepCompile ==
    Cmd({Path("gates/compose.cpp", "")}, {Path("build/compose.o", "")})

\* line 51: the link of the sweep
SweepLink ==
    Cmd({Path("main_%.cpp", "temp"), Path("build/compose.o", "")},
        {Path("main_%.elf", "temp")})
NotParsed == [done |-> FALSE, raised |-> FALSE, acc |-> EmptyMap]

\* main() of grid-search.py not started
InitSweepIdle ==
    /\ pc = "open_results"
    /\ ti = 1 /\ di = 1 /\ gi = 1
    /\ buf = [g \in GateSet |-> <<>>]
    /\ disk = [g \in GateSet |-> <<>>]
    /\ rows = [g \in GateSet |-> RowLine(0, <<>>)]
    /\ result = NoResult
    /\ gate_accuracies = EmptyMap
    /\ pending = "return"
    /\ ev = NoEvent
    /\ best_configs = <<>>
    /\ output = <<>>
    /\ visited = <<>>
    /\ measured = <<>>
    /\ argv = NoArgv

InitSweep ==
    /\ InitSweepIdle
    /\ files = {}

\* create-optimal-binaries.py not started
InitFinalIdle ==
    /\ fpc = "f_loop"
    /\ fgi = 1
    /\ fpending = "True"
    /\ fev = NoEvent
    /\ successful_builds = 0
    /\ listed = {}
    /\ fargv = NoArgv
    /\ fcalls = [g \in GateSet |-> 0]
    /\ fbuilt = {}

InitParseIdle ==
    /\ capture = <<>>
    /\ parsed = NotParsed

\* no variant generated
NoVariant == [by |-> "-", compose |-> <<>>, main |-> <<>>, again |-> FALSE,
              compose2 |-> <<>>, main2 |-> <<>>]

InitGenIdle ==
    /\ template = <<>>
    /\ triple = [gate |-> Gates[1], threshold |-> 0, delay |-> 0]
    /\ variant = NoVariant

Init ==
    /\ InitSweep
    /\ InitParseIdle
    /\ InitFinalIdle
    /\ InitGenIdle

\* lines 88-97: open gate gi's result file for writing and write its header
OpenResults ==
    /\ pc = "open_results"
    /\ disk' = [disk EXCEPT ![Gates[gi]] = <<>>]
    /\ buf' = [buf EXCEPT ![Gates[gi]] = Header(Gates[gi])]
    /\ IF gi < Len(Gates)
          THEN gi' = gi + 1 /\ pc' = pc
          ELSE gi' = 1 /\ pc' = IF Len(Thresholds) = 0 THEN "close" ELSE "next_threshold"
    /\ UNCHANGED <<ti, di, rows, files, result, gate_accuracies, pending, ev,
                   best_configs, output, otherVars, visited, measured, argv>>

\* lines 108-110: the outer loop takes threshold ti and starts a row per gate
NextThreshold ==
    /\ pc = "next_threshold"
    /\ rows' = [g \in GateSet |-> RowLine(Thresholds[ti], <<>>)]
    /\ di' = 1
    /\ pc' = IF Len(Delays) = 0 THEN "write_row" ELSE "read_compose"
    /\ UNCHANGED <<ti, gi, buf, disk, files, result, gate_accuracies, pending, ev,
                   best_configs, output, otherVars, visited, measured, argv>>

\* ---------------------------------------------------------- test_parameters
\* lines 18-19: read the composition template (outside the try block)
ReadCompose ==
    /\ pc = "read_compose"
    /\ \E ok \in BOOLEAN :
         /\ ev' = [NoEvent EXCEPT !.gen = IF ok THEN "ok" ELSE "failed"]
         /\ pc' = IF ok THEN "write_compose" ELSE "aborted"
    /\ result' = NoResult
    /\ gate_accuracies' = EmptyMap
    /\ pending' = "return"
    /\ visited' = Append(visited, <<Thresholds[ti], Delays[di]>>)
    /\ argv' = NoArgv
    /\ UNCHANGED <<ti, di, gi, buf, disk, rows, files, best_configs, output,
                   otherVars, measured>>

\* open(path, 'w') and f.write(text), outside the try block: the file is
\* written; or open fails and nothing is created; or the file is created and
\* the write fails.  A failure leaves test_parameters and main().
WriteGenerated(path, here, next) ==
    /\ pc = here
    /\ \E o \in {"ok", "open_failed", "write_failed"} :
         /\ files' = IF o = "open_failed" THEN files ELSE files \cup {path}
         /\ pc' = IF o = "ok" THEN next ELSE "aborted"
         /\ ev' = [ev EXCEPT !.gen = IF o = "ok" THEN @ ELSE "failed"]
    /\ UNCHANGED <<ti, di, gi, buf, disk, rows, result, gate_accuracies, pending,
                   best_configs, output, otherVars, visited, measured, argv>>

\* lines 21-25
WriteCompose ==
    WriteGenerated(Path("gates/compose_%.cpp", "temp"), "write_compose", "read_main")

\* lines 28-29: read the main template (outside the try block)
ReadMain ==
    /\ pc = "read_main"
    /\ \E ok \in BOOLEAN :
         /\ ev' = [ev EXCEPT !.gen = IF ok THEN @ ELSE "failed"]
         /\ pc' = IF ok THEN "write_main" ELSE "aborted"
    /\ UNCHANGED <<ti, di, gi, buf, disk, rows, files, result, gate_accuracies,
                   pending, best_configs, output, otherVars, visited, measured, argv>>

\* lines 31-36
WriteMain == WriteGenerated(Path("main_%.cpp", "temp"), "write_main", "make_clean")

\* (a build step whose CalledProcessError is not caught)
BuildStepUncaught(here, stage, next, product) ==
    /\ pc = here
    /\ \E o \in {"ok", "exit", "nolaunch"} :
         /\ ev' = [ev EXCEPT ![stage] = o]
         /\ pc' = IF o = "ok" THEN next ELSE "cleanup"
         /\ pending' = IF o = "ok" THEN "return" ELSE "raise"
         /\ files' = IF o = "ok" THEN files \cup product ELSE files
    /\ gate_accuracies' = EmptyMap
    /\ UNCHANGED <<ti, di, gi, buf, disk, rows, result, best_configs, output,
                   otherVars, visited, measured>>

\* (a build step without check=True: a failed stage does not skip the rest)
BuildStepUnchecked(here, stage, next, product) ==
    /\ pc = here
    /\ \E o \in {"ok", "exit", "nolaunch"} :
         /\ ev' = [ev EXCEPT ![stage] = o]
         /\ pc' = next
         /\ pending' = "return"
         /\ files' = IF o = "ok" THEN files \cup product ELSE files
    /\ gate_accuracies' = EmptyMap
    /\ UNCHANGED <<ti, di, gi, buf, disk, rows, result, best_configs, output,
                   otherVars, visited, measured>>

\* subprocess.run(..., check=True) inside the try block: the command exits 0;
\* or exits nonzero (CalledProcessError, caught at line 73: return {}); or
\* cannot be launched (OSError, not caught: it leaves through the finally).
BuildStep(here, stage, next, product) ==
    /\ pc = here
    /\ \E o \in {"ok", "exit", "nolaunch"} :
         /\ ev' = [ev EXCEPT ![stage] = o]
         /\ pc' = IF o = "ok" THEN next ELSE "cleanup"
         /\ pending' = IF o = "nolaunch" THEN "raise" ELSE "return"
         /\ files' = IF o = "ok" THEN files \cup product ELSE files
    /\ gate_accuracies' = EmptyMap
    /\ UNCHANGED <<ti, di, gi, buf, disk, rows, result, best_configs, output,
                   otherVars, visited, measured>>

\* line 40
MakeClean == BuildStep("make_clean", "clean", "compile", {}) /\ UNCHANGED argv

\* lines 47-48
Compile ==
    /\ BuildStep("compile", "compile", "link", {})
    /\ argv' = [argv EXCEPT !.compile = SweepCompile]

\* lines 51-52
Link ==
    /\ BuildStep("link", "link", "run", SweepLink.out)
    /\ argv' = [argv EXCEPT !.link = SweepLink]

\* lines 55-56: subprocess.run without check: any exit status returns the
\* captured stdout; an executable that cannot be launched raises OSError.
Run ==
    /\ pc = "run"
    /\ \/ /\ ev' = [ev EXCEPT !.run = "nolaunch"]
          /\ pending' = "raise"
          /\ pc' = "cleanup"
          /\ UNCHANGED result
       \/ \E status \in {0, 1}, out \in SweepReports :
            /\ ev' = [ev EXCEPT !.run = IF status = 0 THEN "ok" ELSE "exit"]
            /\ result' = [exit |-> status, stdout |-> out]
            /\ pc' = "parse"
            /\ UNCHANGED pending
    /\ UNCHANGED <<ti, di, gi, buf, disk, rows, files, gate_accuracies,
                   best_configs, output, otherVars, visited, measured, argv>>

\* lines 59-71: parse result.stdout; an exception of the parser is not a
\* CalledProcessError and leaves through the finally.
Parse ==
    /\ pc = "parse"
    /\ LET r == ParseReport(result.stdout)
       IN  /\ ev' = [ev EXCEPT !.parse = IF r.raised THEN "raised" ELSE "ok"]
           /\ pending' = IF r.raised THEN "raise" ELSE "return"
           /\ gate_accuracies' = IF r.raised THEN EmptyMap ELSE r.acc
    /\ pc' = "cleanup"
    /\ UNCHANGED <<ti, di, gi, buf, disk, rows, files, result,
                   best_configs, output, otherVars, visited, measured, argv>>

\* (an exception of a grid point ending the loops but not main())
CleanupThenSummary ==
    /\ pc = "cleanup"
    /\ files' = files \ TempFiles
    /\ pc' = IF pending = "raise" THEN "close" ELSE "append"
    /\ UNCHANGED <<ti, di, gi, buf, disk, rows, result, gate_accuracies, pending,
                   ev, best_configs, output, otherVars, visited, measured, argv>>

\* lines 76-83: the finally block, then the return to main() or the
\* exception leaving main()
Cleanup ==
    /\ pc = "cleanup"
    /\ files' = files \ TempFiles
    /\ pc' = IF pending = "raise" THEN "aborted" ELSE "append"
    /\ UNCHANGED <<ti, di, gi, buf, disk, rows, result, gate_accuracies, pending,
                   ev, best_configs, output, otherVars, visited, measured, argv>>

\* ------------------------------------------------------------------- main
\* (a gate that is not in the mapping gets no cell)
AppendCellsPresentOnly ==
    /\ pc = "append"
    /\ rows' = [g \in GateSet |->
                 IF g \in DOMAIN gate_accuracies
                   THEN [rows[g] EXCEPT !.cells =
                            Append(@, Cell(Delays[di], Fmt1(gate_accuracies[g])))]
                   ELSE rows[g]]
    /\ IF di < Len(Delays)
          THEN di' = di + 1 /\ pc' = "read_compose" /\ gi' = gi
          ELSE di' = di /\ pc' = "write_row" /\ gi' = 1
    /\ measured' = Append(measured, gate_accuracies)
    /\ UNCHANGED <<ti, buf, disk, files, result, gate_accuracies, pending, ev,
                   best_configs, output, otherVars, visited, argv>>

\* lines 128-130, and the step of the inner loop
AppendCells ==
    /\ pc = "append"
    /\ rows' = [g \in GateSet |->
                 [rows[g] EXCEPT !.cells =
                     Append(@, Cell(Delays[di], Fmt1(Get(gate_accuracies, g, 0))))]]
    /\ IF di < Len(Delays)
          THEN di' = di + 1 /\ pc' = "read_compose" /\ gi' = gi
          ELSE di' = di /\ pc' = "write_row" /\ gi' = 1
    /\ measured' = Append(measured, gate_accuracies)
    /\ UNCHANGED <<ti, buf, disk, files, result, gate_accuracies, pending, ev,
                   best_configs, output, otherVars, visited, argv>>

\* line 134: write gate gi's row to its stream
WriteRow ==
    /\ pc = "write_row"
    /\ buf' = [buf EXCEPT ![Gates[gi]] = Append(@, rows[Gates[gi]])]
    /\ pc' = "flush_row"
    /\ UNCHANGED <<ti, di, gi, disk, rows, files, result, gate_accuracies, pending,
                   ev, best_configs, output, otherVars, visited, measured, argv>>

\* (the row written but its stream not flushed)
FlushRowUnflushed ==
    /\ pc = "flush_row"
    /\ IF gi < Len(Gates)
          THEN gi' = gi + 1 /\ pc' = "write_row" /\ ti' = ti
          ELSE /\ gi' = 1
               /\ IF ti < Len(Thresholds)
                     THEN ti' = ti + 1 /\ pc' = "next_threshold"
                     ELSE ti' = ti /\ pc' = "close"
    /\ UNCHANGED <<di, buf, disk, rows, files, result, gate_accuracies, pending, ev,
                   best_configs, output, otherVars, visited, measured, argv>>

\* (only the stream of the last gate flushed)
FlushRowLastOnly ==
    /\ pc = "flush_row"
    /\ disk' = IF gi = Len(Gates)
                  THEN [disk EXCEPT ![Gates[gi]] = @ \o buf[Gates[gi]]] ELSE disk
    /\ buf' = IF gi = Len(Gates) THEN [buf EXCEPT ![Gates[gi]] = <<>>] ELSE buf
    /\ IF gi < Len(Gates)
          THEN gi' = gi + 1 /\ pc' = "write_row" /\ ti' = ti
          ELSE /\ gi' = 1
               /\ IF ti < Len(Thresholds)
                     THEN ti' = ti + 1 /\ pc' = "next_threshold"
                     ELSE ti' = ti /\ pc' = "close"
    /\ UNCHANGED <<di, rows, files, result, gate_accuracies, pending, ev,
                   best_configs, output, otherVars, visited, measured, argv>>

\* line 135: flush gate gi's stream, and the step of the loops
FlushRow ==
    /\ pc = "flush_row"
    /\ disk' = [disk EXCEPT ![Gates[gi]] = @ \o buf[Gates[gi]]]
    /\ buf' = [buf EXCEPT ![Gates[gi]] = <<>>]
    /\ IF gi < Len(Gates)
          THEN gi' = gi + 1 /\ pc' = "write_row" /\ ti' = ti
          ELSE /\ gi' = 1
               /\ IF ti < Len(Thresholds)
                     THEN ti' = ti + 1 /\ pc' = "next_threshold"
                     ELSE ti' = ti /\ pc' = "close"
    /\ UNCHANGED <<di, rows, files, result, gate_accuracies, pending, ev,
                   best_configs, output, otherVars, visited, measured, argv>>

\* lines 140-141: close every result stream (close flushes)
Close ==
    /\ pc = "close"
    /\ disk' = [g \in GateSet |-> disk[g] \o buf[g]]
    /\ buf' = [g \in GateSet |-> <<>>]
    /\ pc' = "select"
    /\ gi' = 1
    /\ UNCHANGED <<ti, di, rows, files, result, gate_accuracies, pending, ev,
                   best_configs, output, otherVars, visited, measured, argv>>

\* ---------------------------------------------------------------- Selector
NoBest == [threshold |-> 0, delay |-> 0, accuracy |-> 0]

\* lines 170-174: the cells of one row from column i on
RECURSIVE ScanCells(_, _, _, _)
ScanCells(cells, i, threshold, best) ==
    IF i > Len(cells) THEN best
    ELSE LET accuracy == ParseFloat(cells[i].a)
         IN  IF i <= Len(Delays) /\ accuracy > best.accuracy
               THEN ScanCells(cells, i + 1, threshold,
                              [threshold |-> threshold, delay |-> Delays[i],
                               accuracy |-> accuracy])
               ELSE ScanCells(cells, i + 1, threshold, best)

\* lines 154-174: the lines of the file from line k on
RECURSIVE ScanLines(_, _, _)
ScanLines(lines, k, best) ==
    IF k > Len(lines) THEN best
    ELSE ScanLines(lines, k + 1, ScanCells(lines[k].cells, 1, lines[k].t, best))

\* lines 147-174: readlines()[2:] skips the two header lines
SelectBest(file) == ScanLines(file, 3, NoBest)

\* line 176: the summary line of a gate ("Accuracy" printed with ".1f")
ResultLine(g, best) ==
    [gate |-> g, threshold |-> best.threshold, delay |-> best.delay,
     accuracy |-> Fmt1(best.accuracy)]

\* lines 146-178: the Best Configuration Record of gate gi, from its file
Select ==
    /\ pc = "select"
    /\ best_configs' = Append(best_configs,
                              ResultLine(Gates[gi], SelectBest(disk[Gates[gi]])))
    /\ IF gi < Len(Gates)
          THEN gi' = gi + 1 /\ pc' = pc
          ELSE gi' = 1 /\ pc' = "write_summary"
    /\ UNCHANGED <<ti, di, buf, disk, rows, files, result, gate_accuracies, pending,
                   ev, output, otherVars, visited, measured, argv>>

TitleLine == [gate |-> "", threshold |-> 0, delay |-> 0, accuracy |-> 0]

\* lines 181-184: write output.txt
WriteSummary ==
    /\ pc = "write_summary"
    /\ output' = <<TitleLine>> \o best_configs
    /\ pc' = "done"
    /\ UNCHANGED <<ti, di, gi, buf, disk, rows, files, result, gate_accuracies,
                   pending, ev, best_configs, otherVars, visited, measured, argv>>

Next ==
    \/ OpenResults \/ NextThreshold
    \/ ReadCompose \/ WriteCompose \/ ReadMain \/ WriteMain
    \/ MakeClean \/ Compile \/ Link \/ Run \/ Parse \/ Cleanup
    \/ AppendCells \/ WriteRow \/ FlushRow \/ Close \/ Select \/ WriteSummary

Spec == Init /\ [][Next]_vars

\* ------------------------------------------- create-optimal-binaries.py
\* (every gate sharing the one temporary name of the sweep)
LowerShared(g) == "temp"

\* gate_name.lower()
Lower(g) ==
    CASE g = "AND" -> "and" [] g = "OR" -> "or" [] g = "ASSIGN" -> "assign"
      [] g = "NOT" -> "not" [] g = "NAND" -> "nand" [] g = "XOR" -> "xor"
      [] g = "MUX" -> "mux"

\* lines 44, 62: the generated sources of a gate, removed in the finally block
FinalTemp(g) ==
    {Path("gates/compose_%.cpp", Lower(g)), Path("main_%.cpp", Lower(g))}

\* line 79
ObjectOf(g) == Path("build/compose_%.o", Lower(g))

\* line 84
BinaryOf(g) == Path("optimal-binaries/main_%.elf", Lower(g))

\* The builder starts in a working directory that may hold binaries of an
\* earlier run.
InitFinal ==
    /\ InitSweepIdle
    /\ InitParseIdle
    /\ InitFinalIdle
    /\ InitGenIdle
    /\ files \in SUBSET {BinaryOf(g) : g \in GateSet}

\* lines 109-110: the loop over BEST_CONFIGS calls create_optimized_binary
FLoop ==
    /\ fpc = "f_loop"
    /\ fpc' = IF fgi <= Len(Gates) THEN "f_read_compose" ELSE "f_report"
    /\ fev' = NoEvent
    /\ fpending' = "True"
    /\ fargv' = NoArgv
    /\ fcalls' = IF fgi <= Len(Gates)
                    THEN [fcalls EXCEPT ![Gates[fgi]] = @ + 1] ELSE fcalls
    /\ UNCHANGED <<fgi, successful_builds, listed, files, fbuilt, sweepVars,
                   parseVars, genVars>>

\* lines 36-37 and 49-50: read a template (outside the try block)
FReadTemplate(here, next) ==
    /\ fpc = here
    /\ \E ok \in BOOLEAN :
         /\ fev' = [fev EXCEPT !.gen = IF ok THEN "ok" ELSE "failed"]
         /\ fpc' = IF ok THEN next ELSE "f_aborted"
    /\ UNCHANGED <<fgi, fpending, successful_builds, listed, files, fargv,
                   fcalls, fbuilt, sweepVars, parseVars, genVars>>

FReadCompose == FReadTemplate("f_read_compose", "f_write_compose")

FReadMain == FReadTemplate("f_read_main", "f_write_main")

\* lines 44-46 and 62-64: open and write a generated file (outside the try
\* block)
FWriteGenerated(path, here, next) ==
    /\ fpc = here
    /\ \E o \in {"ok", "open_failed", "write_failed"} :
         /\ files' = IF o = "open_failed" THEN files ELSE files \cup {path}
         /\ fpc' = IF o = "ok" THEN next ELSE "f_aborted"
         /\ fev' = [fev EXCEPT !.gen = IF o = "ok" THEN @ ELSE "failed"]
    /\ UNCHANGED <<fgi, fpending, successful_builds, listed, fargv, fcalls,
                   fbuilt, sweepVars, parseVars, genVars>>

FWriteCompose ==
    FWriteGenerated(Path("gates/compose_%.cpp", Lower(Gates[fgi])),
                    "f_write_compose", "f_read_main")

FWriteMain ==
    FWriteGenerated(Path("main_%.cpp", Lower(Gates[fgi])),
                    "f_write_main", "f_make_clean")

\* subprocess.run(..., check=True) of lines 68, 80, 85: exit 0; nonzero exit
\* (CalledProcessError, caught at line 91: return False); or no launch
\* (OSError, not caught).  After the last stage line 89 returns True.
FBuildStep(here, stage, next, product) ==
    /\ fpc = here
    /\ \E o \in {"ok", "exit", "nolaunch"} :
         /\ fev' = [fev EXCEPT ![stage] = o]
         /\ fpc' = IF o = "ok" THEN next ELSE "f_cleanup"
         /\ fpending' = CASE o = "ok" -> "True" [] o = "exit" -> "False"
                           [] OTHER -> "raise"
         /\ files' = IF o = "ok" THEN files \cup product ELSE files
    /\ UNCHANGED <<fgi, successful_builds, listed, fcalls, sweepVars, parseVars,
                   genVars>>

\* lines 79-80: the compile of gate g
FinalCompile(g) == Cmd({Path("gates/compose_%.cpp", Lower(g))}, {ObjectOf(g)})

\* lines 84-85: the link of gate g
FinalLink(g) == Cmd({Path("main_%.cpp", Lower(g)), ObjectOf(g)}, {BinaryOf(g)})

FMakeClean ==
    /\ FBuildStep("f_make_clean", "clean", "f_compile", {})
    /\ UNCHANGED <<fargv, fbuilt>>

FCompile ==
    /\ FBuildStep("f_compile", "compile", "f_link", FinalCompile(Gates[fgi]).out)
    /\ fargv' = [fargv EXCEPT !.compile = FinalCompile(Gates[fgi])]
    /\ UNCHANGED fbuilt

FLink ==
    /\ FBuildStep("f_link", "link", "f_cleanup", FinalLink(Gates[fgi]).out)
    /\ fargv' = [fargv EXCEPT !.link = FinalLink(Gates[fgi])]
    /\ fbuilt' = IF fev'.link = "ok" THEN fbuilt \cup {Gates[fgi]} ELSE fbuilt

\* lines 95-100: the finally block, then the return or the exception
FCleanup ==
    /\ fpc = "f_cleanup"
    /\ files' = files \ FinalTemp(Gates[fgi])
    /\ fpc' = IF fpending = "raise" THEN "f_aborted" ELSE "f_tally"
    /\ UNCHANGED <<fgi, fpending, fev, successful_builds, listed, fargv, fcalls,
                   fbuilt, sweepVars, parseVars, genVars>>

\* lines 111-113, and the step of the loop
FTally ==
    /\ fpc = "f_tally"
    /\ successful_builds' =
          IF fpending = "True" THEN successful_builds + 1 ELSE successful_builds
    /\ fgi' = fgi + 1
    /\ fpc' = "f_loop"
    /\ UNCHANGED <<fpending, fev, listed, files, fargv, fcalls, fbuilt, sweepVars,
                   parseVars, genVars>>

\* lines 115-129: the summary and the list of the .elf files of
\* optimal-binaries
FReport ==
    /\ fpc = "f_report"
    /\ listed' = {f \in files : f.pattern = "optimal-binaries/main_%.elf"}
    /\ fpc' = "f_done"
    /\ UNCHANGED <<fgi, fpending, fev, successful_builds, files, fargv, fcalls,
                   fbuilt, sweepVars, parseVars, genVars>>

NextFinal ==
    \/ FLoop \/ FReadCompose \/ FWriteCompose \/ FReadMain \/ FWriteMain
    \/ FMakeClean \/ FCompile \/ FLink \/ FCleanup \/ FTally \/ FReport

SpecFinal == InitFinal /\ [][NextFinal]_vars

\* ------------------------------------------------------------- the parser
\* The parser of lines 59-71 on every captured text of at most MaxLines lines.
RateStds == {1, 2}

ReportLines ==
    {GateLine(g) : g \in GateSet} \cup {TextLine}
    \cup {RateLine(p, s) : p \in {AccVals[i] : i \in 1..Len(AccVals)} \cup {NoPct},
                           s \in RateStds}

Captures == UNION {[1..n -> ReportLines] : n \in 0..MaxLines}

InitParse ==
    /\ InitSweep
    /\ InitFinalIdle
    /\ InitGenIdle
    /\ capture \in Captures
    /\ parsed = NotParsed

\* lines 59-71 applied to the captured text
ParseCapture ==
    /\ ~parsed.done
    /\ LET r == ParseReport(capture)
       IN  parsed' = [done |-> TRUE, raised |-> r.raised,
                      acc |-> IF r.raised THEN EmptyMap ELSE r.acc]
    /\ UNCHANGED <<capture, sweepVars, files, finalVars, genVars>>

NextParse == ParseCapture

SpecParse == InitParse /\ [][NextParse]_vars

\* position i holds a rate line with a percentage and position i-1 the
\* delimiter of gate g
BlockAt(lines, i, g) ==
    /\ i \in 2..Len(lines)
    /\ lines[i].kind = "rate"
    /\ lines[i].pct # NoPct
    /\ lines[i - 1].kind = "gate"
    /\ lines[i - 1].gate = g

\* C8: for every line position i holding the marker, the parser inspects
\* exactly line i-1: when that line holds the delimiter of gate G, the result
\* maps G to the number of line i (of the last such line, when G has several),
\* whatever the other lines of the capture are.
C8_AdjacentLineDecides ==
    (parsed.done /\ ~parsed.raised) =>
        \A g \in GateSet : \A i \in 2..Len(capture) :
            (/\ BlockAt(capture, i, g)
             /\ \A j \in (i + 1)..Len(capture) : ~BlockAt(capture, j, g))
            => (g \in DOMAIN parsed.acc /\ parsed.acc[g] = capture[i].pct)

\* C9: a marker line whose preceding line holds no gate delimiter, or which
\* is the first line of the capture, contributes no entry: every entry of
\* the result comes from a marker line directly below that gate's delimiter.
C9_NoEntryWithoutDelimiter ==
    (parsed.done /\ ~parsed.raised) =>
        \A g \in DOMAIN parsed.acc :
            \E i \in 2..Len(capture) :
                BlockAt(capture, i, g) /\ capture[i].pct = parsed.acc[g]

\* ------------------------------------------------- claims about the sweep
GateIndex(g) == CHOOSE i \in 1..Len(Gates) : Gates[i] = g

\* gate g's result file has been opened by this run
Opened(g) == pc # "open_results" \/ GateIndex(g) < gi

\* the rows of gate g the sweep has flushed at this point of main()
FlushedRows(g) ==
    CASE pc = "open_results" -> 0
      [] pc \in {"write_row", "flush_row"} ->
            IF GateIndex(g) < gi THEN ti ELSE ti - 1
      [] pc \in {"close", "select", "write_summary", "done"} -> ti
      [] OTHER -> ti - 1

\* the k-th row of a file is a complete row of the k-th threshold
CompleteRowAt(file, k) ==
    /\ file[k + 2].kind = "row"
    /\ file[k + 2].t = Thresholds[k]
    /\ Len(file[k + 2].cells) = Len(Delays)

\* the file is the header followed by n complete rows
HeaderAndRows(g, file, n) ==
    /\ Len(file) = n + 2
    /\ SubSeq(file, 1, 2) = Header(g)
    /\ \A k \in 1..n : CompleteRowAt(file, k)

\* C1 as stated: once a gate's file is opened, what is persisted of it is
\* the header followed by the complete rows of the thresholds finished so far.
C1_HeaderThenCompleteRows ==
    \A g \in GateSet : Opened(g) => HeaderAndRows(g, disk[g], FlushedRows(g))

\* C1, amended: what is persisted of a gate's file is nothing at all (until
\* the first row is flushed: the header is written without a flush) or the
\* header followed by complete rows; it holds the row of threshold t for
\* every gate before the first grid point of the next threshold starts, and
\* never a partly filled row.
C1_EmptyOrHeaderThenCompleteRows ==
    \A g \in GateSet :
        \/ FlushedRows(g) = 0 /\ disk[g] = <<>>
        \/ HeaderAndRows(g, disk[g], FlushedRows(g))

C1_Witness ==
    /\ pc = "run" /\ ti = 2 /\ di = 2
    /\ \A g \in GateSet :
          /\ Len(rows[g].cells) = 1
          /\ HeaderAndRows(g, disk[g], 1)

\* C2: in every persisted result file the row thresholds are strictly
\* ascending and are an initial segment of 100, 125, ..., 300, and the
\* columns of the header and of every row follow the delay list.
C2_DelayList == <<32, 48, 64, 96, 128, 192, 256, 512, 1024>>

C2_RowsAscendingColumnsInOrder ==
    \A g \in GateSet : \A k \in 1..Len(disk[g]) :
        LET line == disk[g][k]
        IN  /\ (k >= 3) <=> (line.kind = "row")
            /\ line.kind = "row" =>
                  /\ line.t = 100 + 25 * (k - 3)
                  /\ line.t <= 300
                  /\ k > 3 => disk[g][k - 1].t < line.t
            /\ line.kind \in {"row", "header"} =>
                  \A j \in 1..Len(line.cells) : line.cells[j].d = C2_DelayList[j]

C2_Witness ==
    /\ pc = "done"
    /\ \A g \in GateSet : Len(disk[g]) >= 4 /\ Len(disk[g][4].cells) >= 2

\* positions <<k, j>> (row k, column j) of the cells of a result file
CellsOf(file) ==
    {<<k, j>> \in (3..Len(file)) \X (1..Len(Delays)) : j <= Len(file[k].cells)}

\* row-major order of positions
Before(p, q) == p[1] < q[1] \/ (p[1] = q[1] /\ p[2] < q[2])

IsMaxAt(file, p) ==
    \A q \in CellsOf(file) : file[q[1]].cells[q[2]].a <= file[p[1]].cells[p[2]].a

\* the Best Configuration Record the Selector computed for the n-th gate
RecordOf(n) == best_configs[n]

\* C3: the record's accuracy is the maximum of the gate's persisted matrix,
\* and its (threshold, delay) is the first position of that maximum in
\* row-major order.
C3_RecordIsFirstMaximum ==
    \A n \in 1..Len(best_configs) :
        LET file == disk[Gates[n]]
        IN  \E p \in CellsOf(file) :
              /\ IsMaxAt(file, p)
              /\ \A q \in CellsOf(file) : IsMaxAt(file, q) => ~Before(q, p)
              /\ RecordOf(n).accuracy = file[p[1]].cells[p[2]].a
              /\ RecordOf(n).threshold = file[p[1]].t
              /\ RecordOf(n).delay = Delays[p[2]]

\* C4: the record's (threshold, delay) is a grid point of the sweep and the
\* matrix cell at that position holds the record's accuracy, also for a
\* matrix of zeros.
C4_RecordIsGridPoint ==
    \A n \in 1..Len(best_configs) :
        LET file == disk[Gates[n]]
        IN  \E p \in CellsOf(file) :
              /\ RecordOf(n).threshold = file[p[1]].t
              /\ RecordOf(n).threshold \in {Thresholds[i] : i \in 1..Len(Thresholds)}
              /\ RecordOf(n).delay = Delays[p[2]]
              /\ RecordOf(n).accuracy = file[p[1]].cells[p[2]].a

\* a build stage of the current grid point exited nonzero
BuildFailed == "exit" \in {ev.clean, ev.compile, ev.link}

\* the cells of the current grid point are in the row buffers
PointAppended ==
    /\ pc \in {"read_compose", "write_row", "flush_row"}
    /\ \A g \in GateSet : Len(rows[g].cells) > 0

LastCell(g) == rows[g].cells[Len(rows[g].cells)]

C6_RunFailureYieldsEmpty ==
    ev.run \in {"exit", "nolaunch"} =>
        /\ pending = "return"
        /\ pc # "aborted"
        /\ pc \in {"cleanup", "append"} => gate_accuracies = EmptyMap
        /\ PointAppended => \A g \in GateSet : LastCell(g).a = 0

\* C7: whatever the build tool and the simulator do at a grid point (exit
\* nonzero, fail to launch, print a marker line without a percentage), the
\* sweep is never aborted.  (Only a failure to read a template or to write a
\* generated file is outside the outcomes the claim lists.)
C7_SweepNeverAborted == pc = "aborted" => ev.gen = "failed"

\* the positions at which a grid-point operation (a gate finalization) is in
\* flight, after its first statement
InFlight ==
    pc \in {"write_compose", "read_main", "write_main", "make_clean", "compile",
            "link", "run", "parse", "cleanup"}

FInFlight ==
    fpc \in {"f_write_compose", "f_read_main", "f_write_main", "f_make_clean",
             "f_compile", "f_link", "f_cleanup"}

\* C10: whichever way a grid-point operation or a gate finalization ends
\* (return, failure, or an exception at any step, a template read or a
\* generated-file write included), none of its generated temporary files
\* exists afterwards, when the next operation begins.
C10_NoTempFileOutsideOperation ==
    /\ ~InFlight => files \cap TempFiles = {}
    /\ ~FInFlight => \A g \in GateSet : files \cap FinalTemp(g) = {}

\* --------------------------------- claims about the optimal-binary builder
\* C11: whatever the build tools do for a gate (exit nonzero or fail to
\* launch), the run is not stopped: create_optimized_binary is called at most
\* once per gate, and when main() reports, it has been called exactly once
\* for every gate and successful_builds is the number of gates whose compile
\* and link both exited 0.
C11_EveryGateAttemptedAndTallied ==
    /\ \A g \in GateSet : fcalls[g] <= 1
    /\ fpc = "f_aborted" => fev.gen = "failed"
    /\ fpc \in {"f_report", "f_done"} =>
          /\ \A g \in GateSet : fcalls[g] = 1
          /\ successful_builds = Cardinality(fbuilt)

\* C12: at the end of a run, whatever the output directory held before, the
\* binaries main() lists are exactly the binaries the successful builds of
\* this run produced.
C12_ListedAreProducedThisRun ==
    fpc = "f_done" => listed = {BinaryOf(g) : g \in fbuilt}

\* ------------------------------------------------ claims about the builds
\* C13: in every build, of the sweep and of the optimal-binary builder, the
\* compile is given the composition source generated for the current grid
\* point (gate), and the link is given the generated main source and the
\* object the compile wrote from that generated composition source.
C13_BuildUsesGeneratedSources ==
    /\ ev.compile # "-" =>
          argv.compile.inputs = {Path("gates/compose_%.cpp", "temp")}
    /\ ev.link # "-" =>
          argv.link.inputs = {Path("main_%.cpp", "temp")} \cup argv.compile.out
    /\ (fpc \notin {"f_loop", "f_report", "f_done"} /\ fev.compile # "-") =>
          fargv.compile.inputs = {Path("gates/compose_%.cpp", Lower(Gates[fgi]))}
    /\ (fpc \notin {"f_loop", "f_report", "f_done"} /\ fev.link # "-") =>
          fargv.link.inputs =
              {Path("main_%.cpp", Lower(Gates[fgi]))} \cup fargv.compile.out

\* lines 44, 62, 79, 84: the paths the finalization of gate g writes
PathsOf(g) == FinalTemp(g) \cup {ObjectOf(g), BinaryOf(g)}

Sym(c, id) == [c |-> c, id |-> id]

DigitChars == <<"0", "1", "2", "3", "4", "5", "6", "7", "8", "9">>

IsDigit(sym) == \E k \in 1..Len(DigitChars) : sym = Sym(DigitChars[k], "")

\* str(n) of a natural number, as the f-strings of lines 21-22 print it
RECURSIVE Digits(_)
Digits(n) ==
    IF n < Len(DigitChars) THEN <<Sym(DigitChars[n + 1], "")>>
    ELSE Digits(n \div Len(DigitChars))
             \o <<Sym(DigitChars[(n % Len(DigitChars)) + 1], "")>>

\* (the pattern \d instead of \d+: one digit is taken)
OneDigit(text, j) == j + 1

\* \d+ is greedy: the first position from j on that holds no digit
RECURSIVE EndOfDigits(_, _)
EndOfDigits(text, j) ==
    IF j <= Len(text) /\ IsDigit(text[j]) THEN EndOfDigits(text, j + 1) ELSE j

\* re.sub(r'#define <KEY> \d+', f'#define <KEY> {value}', text) from position
\* i on: every occurrence of the key followed by at least one digit
RECURSIVE SubFrom(_, _, _, _)
SubFrom(text, i, key, value) ==
    IF i > Len(text) THEN <<>>
    ELSE IF text[i] = Sym(key, "") /\ i < Len(text) /\ IsDigit(text[i + 1])
           THEN <<text[i]>> \o Digits(value)
                    \o SubFrom(text, EndOfDigits(text, i + 1), key, value)
           ELSE <<text[i]>> \o SubFrom(text, i + 1, key, value)

SubDefine(text, key, value) == SubFrom(text, 1, key, value)

\* re.sub of a literal: every occurrence of Sym(c, "") becomes Sym(c, id)
SubLiteral(text, c, id) ==
    [i \in 1..Len(text) |-> IF text[i] = Sym(c, "") THEN Sym(c, id) ELSE text[i]]

\* lines 21-22 (40-41): the generated composition text
ComposeText(text, threshold, delay) ==
    SubDefine(SubDefine(text, "T", threshold), "D", delay)

\* lines 31-33: the generated main text of the sweep
SweepMainText(text, threshold, delay) ==
    SubLiteral(ComposeText(text, threshold, delay), "I", "temp")

\* lines 53-59: the generated main text of a gate
FinalMainText(text, gate, threshold, delay) ==
    SubLiteral(SubLiteral(ComposeText(text, threshold, delay), "I", Lower(gate)),
               "P", gate)

TemplateSyms ==
    {Sym("T", ""), Sym("D", ""), Sym("I", ""), Sym("P", ""), Sym("7", ""),
     Sym("x", "")}

Templates == UNION {[1..n -> TemplateSyms] : n \in 0..MaxChars}

Triples ==
    [gate : GateSet, threshold : {Thresholds[i] : i \in 1..Len(Thresholds)},
     delay : {Delays[i] : i \in 1..Len(Delays)}]

InitGen ==
    /\ InitSweep
    /\ InitParseIdle
    /\ InitFinalIdle
    /\ template \in Templates
    /\ triple \in Triples
    /\ variant = NoVariant

\* test_parameters, lines 17-36, with the template as gates/compose.cpp and
\* as main.cpp; a second call when a variant exists
GenerateSweep ==
    /\ variant.by \in {"-", "sweep"}
    /\ ~variant.again
    /\ LET c == ComposeText(template, triple.threshold, triple.delay)
           m == SweepMainText(template, triple.threshold, triple.delay)
       IN  variant' = IF variant.by = "-"
                        THEN [variant EXCEPT !.by = "sweep", !.compose = c,
                                             !.main = m]
                        ELSE [variant EXCEPT !.again = TRUE, !.compose2 = c,
                                             !.main2 = m]
    /\ UNCHANGED <<template, triple, sweepVars, files, parseVars, finalVars>>

\* create_optimized_binary, lines 35-64; a second call when a variant exists
GenerateFinal ==
    /\ variant.by \in {"-", "final"}
    /\ ~variant.again
    /\ LET c == ComposeText(template, triple.threshold, triple.delay)
           m == FinalMainText(template, triple.gate, triple.threshold,
                              triple.delay)
       IN  variant' = IF variant.by = "-"
                        THEN [variant EXCEPT !.by = "final", !.compose = c,
                                             !.main = m]
                        ELSE [variant EXCEPT !.again = TRUE, !.compose2 = c,
                                             !.main2 = m]
    /\ UNCHANGED <<template, triple, sweepVars, files, parseVars, finalVars>>

NextGen == GenerateSweep \/ GenerateFinal

SpecGen == InitGen /\ [][NextGen]_vars

GridIndex(i, j) == (i - 1) * Len(Delays) + j

\* main() is past the loops and the close of the result streams
Completed == pc \in {"select", "write_summary", "done"}

\* C16: when the sweep has completed, every gate's result file holds, after
\* the header, exactly one row per threshold, every row has exactly one
\* cell per delay, and the cell of (threshold, delay) is the accuracy of the
\* gate in the mapping of that grid point, printed with one decimal, or 0.0
\* when the gate is not in the mapping.
C16_MatrixCompleteAndFaithful ==
    Completed =>
        /\ Len(measured) = Len(Thresholds) * Len(Delays)
        /\ \A g \in GateSet :
              /\ Len(disk[g]) = Len(Thresholds) + 2
              /\ \A i \in 1..Len(Thresholds) :
                    LET row == disk[g][i + 2]
                    IN  /\ row.kind = "row"
                        /\ row.t = Thresholds[i]
                        /\ Len(row.cells) = Len(Delays)
                        /\ \A j \in 1..Len(Delays) :
                              LET m == measured[GridIndex(i, j)]
                              IN  row.cells[j].a =
                                      IF g \in DOMAIN m THEN Fmt1(m[g]) ELSE 0

C16_Witness ==
    /\ pc = "done"
    /\ DOMAIN measured[1] = {Gates[1]}
    /\ disk[Gates[1]][3].cells[1].a = Fmt1(AccVals[2])
    /\ disk[Gates[2]][3].cells[1].a = 0
    /\ DOMAIN measured[Len(measured)] = GateSet
    /\ disk[Gates[2]][Len(Thresholds) + 2].cells[Len(Delays)].a = Fmt1(AccVals[2])

\* the k-th grid point of the row-major enumeration
GridPoint(k) ==
    <<Thresholds[((k - 1) \div Len(Delays)) + 1], Delays[((k - 1) % Len(Delays)) + 1]>>

\* main() has ended, by its last statement or by an exception
Ended == pc \in {"done", "aborted"}

\* C17: the grid points test_parameters is called for are, in order, the
\* row-major enumeration of the grid, each once; when main() has ended
\* (the templates being readable and the generated files writable) every
\* grid point has been visited; within a grid point the build is attempted
\* after the generation, the run after a complete build, the parse after the
\* run; and a grid point starts only when every earlier one has been
\* cleaned up and its mapping handed to main().
C17_EveryGridPointOnceInOrder ==
    /\ Len(visited) <= Len(Thresholds) * Len(Delays)
    /\ \A k \in 1..Len(visited) : visited[k] = GridPoint(k)
    /\ (Ended /\ ev.gen # "failed") =>
          Len(visited) = Len(Thresholds) * Len(Delays)
    /\ ev.clean # "-" => ev.gen = "ok"
    /\ ev.compile # "-" => ev.clean = "ok"
    /\ ev.link # "-" => ev.compile = "ok"
    /\ ev.run # "-" => ev.link = "ok"
    /\ ev.parse # "-" => ev.run \in {"ok", "exit"}
    /\ InFlight => Len(measured) = Len(visited) - 1
    /\ pc = "read_compose" =>
          (Len(measured) = Len(visited) /\ files \cap TempFiles = {})

\* the steps of a grid point before its link has written the executable
BeforeLink ==
    pc \in {"read_compose", "write_compose", "read_main", "write_main",
            "make_clean", "compile", "link"}

\* C18: the simulator is run at a grid point only when the compile and the
\* link of that grid point both exited 0: a failed build stage skips the
\* run, and no executable of an earlier grid point exists when a grid point
\* starts its build, the temporary executable being removed at the end of
\* every grid-point operation.
C18_RunOnlyAfterOwnBuild ==
    /\ (pc \in {"run", "parse"} \/ ev.run # "-") =>
          (ev.clean = "ok" /\ ev.compile = "ok" /\ ev.link = "ok")
    /\ (\E stage \in {"clean", "compile", "link"} : ev[stage] \in {"exit", "nolaunch"})
          => ev.run = "-"
    /\ pc = "run" => SweepLink.out \subseteq files
    /\ BeforeLink => SweepLink.out \cap files = {}

C18_Witness ==
    /\ pc = "run" /\ ti = 1 /\ di = 2
    /\ ev.link = "ok"
    /\ SweepLink.out \subseteq files
    /\ Len(measured) = 1

\* the Selector has started, or has left something
SummaryStarted == Completed \/ best_configs # <<>> \/ output # <<>>

\* C19: the Selector runs and output.txt is written only when every row of
\* every gate's result file has been flushed and every result stream is
\* closed; when the sweep stops before its last row is flushed, no Best
\* Configuration Record is computed and no summary is written.
C19_SummaryOnlyAfterCompleteMatrices ==
    /\ SummaryStarted =>
          \A g \in GateSet :
              /\ buf[g] = <<>>
              /\ HeaderAndRows(g, disk[g], Len(Thresholds))
    /\ ~Completed => (best_configs = <<>> /\ output = <<>>)
    /\ output # <<>> => (pc = "done" /\ Len(best_configs) = Len(Gates))

C19_Witness ==
    /\ pc = "done"
    /\ Len(output) = Len(Gates) + 1
    /\ \A g \in GateSet : HeaderAndRows(g, disk[g], Len(Thresholds))

\* the number of rows persisted in gate g's result file
RowsOf(g) == Cardinality({k \in 1..Len(disk[g]) : disk[g][k].kind = "row"})

\* a grid point is being measured
Measuring == InFlight \/ pc \in {"read_compose", "append"}

\* C20: in every state of the sweep the numbers of rows persisted for two
\* gates differ by at most one, a gate earlier in GATE_NAMES never has fewer
\* rows than a later one, and while a grid point is being measured all
\* gates have the same number of persisted rows.
C20_RowCountsInStep ==
    /\ \A g \in GateSet : \A h \in GateSet :
          RowsOf(g) - RowsOf(h) \in {-1, 0, 1}
    /\ \A i \in 1..Len(Gates) : \A j \in (i + 1)..Len(Gates) :
          RowsOf(Gates[i]) >= RowsOf(Gates[j])
    /\ Measuring => \A g \in GateSet : RowsOf(g) = ti - 1

C20_Witness ==
    /\ pc = "write_row" /\ ti = 2 /\ gi = 2
    /\ RowsOf(Gates[1]) = 2
    /\ RowsOf(Gates[2]) = 1

====
